---------------------------- MODULE Spec2Model ----------------------------
(***************************************************************************)
(* Model of go-multicast (pkg/multicast): the Consumer, which owns one     *)
(* socket and one receive loop per multicast-capable interface, and the    *)
(* Listener, which tracks consumers under a mutex.                         *)
(*                                                                         *)
(* Callers are tasks (goroutines) that run NewConsumer, AddConsumer,       *)
(* RemoveConsumer, Listener.Close and Consumer.Close step by step; every   *)
(* started readLoop is a process of its own.                               *)
(***************************************************************************)
EXTENDS Integers, Sequences, FiniteSets

\* Bounds of the model.
NumTasks == 2
MaxConsumers == 2
MaxIfis == 2
MaxIndex == 2
\* The sockets one run may open in all: a list with n multicast interfaces
\* is given to at most MaxSockets \div n consumers.
MaxSockets == 2
\* The length of the buffer of a readLoop (maxMTU bytes in the code, scaled).
BufLen == 2

Tasks == 1..NumTasks
Cons == 1..MaxConsumers
Pos == 1..MaxIfis
Indices == 1..MaxIndex

\* The goroutine of the readLoop of socket k of consumer c, as the caller of
\* what its callback calls; Callers are all goroutines that can be in a call.
LoopTask(c, k) == NumTasks + (c - 1) * MaxIfis + k
Callers == 1..(NumTasks + MaxConsumers * MaxIfis)

\* A net.Interface as far as the code reads it: its Index and whether
\* Flags&net.FlagMulticast is set.
Iface == [Index : Indices, mc : BOOLEAN]

\* The interface lists a caller can pass: any list, duplicates included. The
\* code uses Index only as a map key, so the lists are taken up to a renaming
\* of the indices: an index is at most one above those before it.
IfiLists ==
    {l \in UNION {[1..n -> Iface] : n \in 0..MaxIfis} :
        \A i \in 1..Len(l) :
            \/ l[i].Index = 1
            \/ \E j \in 1..(i - 1) : l[j].Index >= l[i].Index - 1}

VARIABLES
    ifis,           \* Listener.ifis, the list given to every NewConsumer call
    consumers,      \* Listener.consumers
    lmutex,         \* Listener.mutex: 0 when free, else the task holding it
    phase,          \* per consumer: none, building, failed, built, live
    owner,          \* per consumer: none, listener (AddConsumer), direct (NewConsumer)
    closed,         \* Consumer.closed
    cmutex,         \* Consumer.mutex: 0 when free, else the task holding it
    conns,          \* Consumer.ipv4PacketConns: interface index -> socket (0: no entry)
    sock,           \* per consumer and list position: the socket opened there
    closes,         \* per socket: number of pc.Close() calls made on it
    loop,           \* per socket: where its readLoop goroutine is
    task,           \* per task: the call it is in
    closeReturned,  \* per consumer: a Consumer.Close call on it has returned
    addr,           \* Consumer.addr: the IP of the group (0 before construction)
    cifis,          \* Consumer.ifis
    rx,             \* per socket: what pc.ReadFrom returned in this iteration
    buf,            \* per socket: the buffer of its readLoop, reused by every read
    wire,           \* per socket: the bytes of the datagram read, as they were sent
    kept,           \* the payload slice the application's callback kept last
    lcap            \* cap(Listener.consumers)

vars == <<ifis, consumers, lmutex, phase, owner, closed, cmutex, conns, sock,
          closes, loop, task, closeReturned, addr, cifis, rx, lcap,
          buf, wire, kept>>

consVars == <<phase, owner, closed, cmutex, conns, sock, closes, loop, closeReturned,
             addr, cifis, rx, buf, wire>>

Range(s) == {s[i] : i \in 1..Len(s)}

Count(s, x) == Cardinality({i \in 1..Len(s) : s[i] = x})

Min(a, b) == IF a < b THEN a ELSE b

\* An IP address, by its first byte. GroupAddr is the group the consumers of
\* the model are made for, OtherGroup another group whose traffic the sockets
\* can see, and HostAddr a unicast address.
GroupAddr == 224
OtherGroup == 239
HostAddr == 192

\* The addresses a caller passes to NewConsumer and AddConsumer.
CallAddrs == {GroupAddr, HostAddr}

\* net.IP.IsMulticast for an IPv4 address: ip[0]&0xf0 == 0xe0.
IsMulticast(ip) == ip \div 16 = 14

\* What pc.ReadFrom hands to the loop: "err" for an error other than
\* net.ErrClosed, else a datagram, given by cm.Dst, or by NoCm when cm is nil.
NoCm == 0
Datagrams == {NoCm, GroupAddr, OtherGroup}
NoRead == [kind |-> "none", dst |-> NoCm]
ReadErr == [kind |-> "err", dst |-> NoCm]
Dgram(d) == [kind |-> "dgram", dst |-> d]

\* The bytes of the datagrams on the wire when the payloads are looked at:
\* one shorter than the buffer and one longer than it.
Wire == {<<1>>, [i \in 1..(BufLen + 1) |-> 2]}

\* make([]byte, maxMTU)
ZeroBuf == [i \in 1..BufLen |-> 0]

\* Nothing kept by the application yet.
NoKept == [shared |-> FALSE, of |-> <<>>, bytes |-> <<>>]

\* A slice a caller got from Listener.Consumers(): its entries, and whether it
\* shares the backing array of l.consumers.
NoSnap == [shared |-> FALSE, ents |-> <<>>]

IdleTask == [pc |-> "idle", c |-> 0, i |-> 0, tmp |-> <<>>, ret |-> "idle",
             hit |-> FALSE, err |-> FALSE, addr |-> 0, snap |-> NoSnap]

NoConns == [x \in Indices |-> 0]

Init ==
    /\ ifis \in IfiLists
    /\ consumers = <<>>
    /\ lmutex = 0
    /\ phase = [c \in Cons |-> "none"]
    /\ owner = [c \in Cons |-> "none"]
    /\ closed = [c \in Cons |-> FALSE]
    /\ cmutex = [c \in Cons |-> 0]
    /\ conns = [c \in Cons |-> NoConns]
    /\ sock = [c \in Cons |-> [k \in Pos |-> "none"]]
    /\ closes = [c \in Cons |-> [k \in Pos |-> 0]]
    /\ loop = [c \in Cons |-> [k \in Pos |-> "idle"]]
    /\ task = [t \in Callers |-> IdleTask]
    /\ closeReturned = [c \in Cons |-> FALSE]
    /\ addr = [c \in Cons |-> 0]
    /\ cifis = [c \in Cons |-> <<>>]
    /\ rx = [c \in Cons |-> [k \in Pos |-> NoRead]]
    /\ lcap = 0
    /\ buf = [c \in Cons |-> [k \in Pos |-> ZeroBuf]]
    /\ wire = [c \in Cons |-> [k \in Pos |-> <<>>]]
    /\ kept = NoKept


-----------------------------------------------------------------------------
(* Consumer: construction (NewConsumer, start, cleanup).                    *)

\* The sockets recorded in c.ipv4PacketConns.
MappedSocks(c) == {conns[c][x] : x \in Indices} \ {0}

\* The sockets after "for _, pc := range c.ipv4PacketConns { pc.Close() }".
SockAfterCloseAll(c) ==
    [k \in Pos |-> IF k \in MappedSocks(c) THEN "closed" ELSE sock[c][k]]

ClosesAfterCloseAll(c) ==
    [k \in Pos |-> IF k \in MappedSocks(c) THEN Min(closes[c][k] + 1, 2)
                                            ELSE closes[c][k]]

\* The sockets a consumer built on list l can open: its multicast interfaces.
NumMulticast(l) == Cardinality({i \in 1..Len(l) : l[i].mc})

\* The consumer the next NewConsumer call allocates.
NextFree == CHOOSE c \in Cons : phase[c] = "none" /\ \A d \in Cons : d < c => phase[d] # "none"

\* NewConsumer that does not look at addr.IP.IsMulticast().
NewConsumerUnchecked(t, a) ==
    /\ task[t].pc = "idle"
    /\ ~IsMulticast(a)
    /\ \E c \in Cons : phase[c] = "none"
    /\ LET c == CHOOSE d \in Cons : phase[d] = "none" IN
        /\ phase' = [phase EXCEPT ![c] = "building"]
        /\ owner' = [owner EXCEPT ![c] = "direct"]
        /\ addr' = [addr EXCEPT ![c] = a]
        /\ cifis' = [cifis EXCEPT ![c] = ifis]
        /\ task' = [task EXCEPT ![t] = [IdleTask EXCEPT !.pc = "start", !.c = c,
                                                         !.i = 1, !.addr = a]]
    /\ UNCHANGED <<ifis, kept, lcap, consumers, lmutex, closed, cmutex, conns, sock, closes,
                   loop, closeReturned, rx, buf, wire>>

\* NewConsumer with an address a that is not multicast: no consumer is made,
\* (nil, err) is about to be returned.
NewConsumerInvalid(t, a) ==
    /\ task[t].pc = "idle"
    /\ ~IsMulticast(a)
    /\ task' = [task EXCEPT ![t] = [IdleTask EXCEPT !.pc = "newret", !.err = TRUE,
                                                     !.addr = a]]
    /\ UNCHANGED <<ifis, kept, lcap, consumers, lmutex, consVars>>

\* NewConsumer with a multicast address, called directly (viaListener = FALSE)
\* or as the first statement of Listener.AddConsumer (viaListener = TRUE):
\* the Consumer value is made and c.start() begins.
NewConsumer(t, viaListener, a) ==
    /\ task[t].pc = "idle"
    /\ IsMulticast(a)
    /\ \E c \in Cons : phase[c] = "none"
    /\ (Cardinality({c \in Cons : phase[c] # "none"}) + 1) * NumMulticast(ifis) <= MaxSockets
    /\ LET c == NextFree IN
        /\ phase' = [phase EXCEPT ![c] = "building"]
        /\ owner' = [owner EXCEPT ![c] = IF viaListener THEN "listener" ELSE "direct"]
        /\ addr' = [addr EXCEPT ![c] = a]
        /\ cifis' = [cifis EXCEPT ![c] = ifis]
        /\ task' = [task EXCEPT ![t] = [IdleTask EXCEPT !.pc = "start", !.c = c,
                                                         !.i = 1, !.addr = a]]
    /\ UNCHANGED <<ifis, kept, lcap, consumers, lmutex, closed, cmutex, conns, sock, closes,
                   loop, closeReturned, rx, buf, wire>>

\* start: an interface without FlagMulticast is skipped.
startSkip(t) ==
    /\ task[t].pc = "start"
    /\ task[t].i <= Len(cifis[task[t].c])
    /\ ~cifis[task[t].c][task[t].i].mc
    /\ task' = [task EXCEPT ![t].i = @ + 1]
    /\ UNCHANGED <<ifis, kept, lcap, consumers, lmutex, consVars>>

\* start: openPacketConn fails (it closes its own descriptor), then cleanup().
startOpenFail(t) ==
    /\ task[t].pc = "start"
    /\ task[t].i <= Len(cifis[task[t].c])
    /\ cifis[task[t].c][task[t].i].mc
    /\ LET c == task[t].c IN
        /\ sock' = [sock EXCEPT ![c] = SockAfterCloseAll(c)]
        /\ closes' = [closes EXCEPT ![c] = ClosesAfterCloseAll(c)]
        /\ conns' = [conns EXCEPT ![c] = NoConns]
    /\ task' = [task EXCEPT ![t].pc = "newret", ![t].err = TRUE]
    /\ UNCHANGED <<ifis, kept, lcap, consumers, lmutex, phase, owner, closed, cmutex, loop,
                   closeReturned,
                   addr, cifis, rx, buf, wire>>

\* start: the socket is open, then SetControlMessage or JoinGroup fails and
\* cleanup() runs: it closes the sockets of the map, which does not hold pc yet.
startSetupFail(t) ==
    /\ task[t].pc = "start"
    /\ task[t].i <= Len(cifis[task[t].c])
    /\ cifis[task[t].c][task[t].i].mc
    /\ LET c == task[t].c
           k == task[t].i
       IN
        /\ sock' = [sock EXCEPT ![c] = [SockAfterCloseAll(c) EXCEPT ![k] = "open"]]
        /\ closes' = [closes EXCEPT ![c] = ClosesAfterCloseAll(c)]
        /\ conns' = [conns EXCEPT ![c] = NoConns]
    /\ task' = [task EXCEPT ![t].pc = "newret", ![t].err = TRUE]
    /\ UNCHANGED <<ifis, kept, lcap, consumers, lmutex, phase, owner, closed, cmutex, loop,
                   closeReturned,
                   addr, cifis, rx, buf, wire>>

\* start storing the joined socket without starting its readLoop.
startJoinNoLoop(t) ==
    /\ task[t].pc = "start"
    /\ task[t].i <= Len(cifis[task[t].c])
    /\ cifis[task[t].c][task[t].i].mc
    /\ LET c == task[t].c
           k == task[t].i
       IN
        /\ sock' = [sock EXCEPT ![c][k] = "open"]
        /\ conns' = [conns EXCEPT ![c][cifis[c][k].Index] = k]
    /\ task' = [task EXCEPT ![t].i = @ + 1]
    /\ UNCHANGED <<ifis, kept, lcap, consumers, lmutex, phase, owner, closed, cmutex, closes,
                   loop, closeReturned, addr, cifis, rx, buf, wire>>

\* start: the socket is open and joined; it is stored under ifi.Index and its
\* readLoop goroutine is started.
startJoin(t) ==
    /\ task[t].pc = "start"
    /\ task[t].i <= Len(cifis[task[t].c])
    /\ cifis[task[t].c][task[t].i].mc
    /\ LET c == task[t].c
           k == task[t].i
       IN
        /\ sock' = [sock EXCEPT ![c][k] = "open"]
        /\ conns' = [conns EXCEPT ![c][cifis[c][k].Index] = k]
        /\ loop' = [loop EXCEPT ![c][k] = "top"]
    /\ task' = [task EXCEPT ![t].i = @ + 1]
    /\ UNCHANGED <<ifis, kept, lcap, consumers, lmutex, phase, owner, closed, cmutex, closes,
                   closeReturned,
                   addr, cifis, rx, buf, wire>>

\* start: the list is exhausted, start returns nil.
startDone(t) ==
    /\ task[t].pc = "start"
    /\ task[t].i > Len(cifis[task[t].c])
    /\ task' = [task EXCEPT ![t].pc = "newret", ![t].err = FALSE]
    /\ UNCHANGED <<ifis, kept, lcap, consumers, lmutex, consVars>>

\* NewConsumer returns: (nil, err), or the consumer. Under AddConsumer a
\* successful return leads on to the append.
NewConsumerReturn(t) ==
    /\ task[t].pc = "newret"
    /\ LET c == task[t].c IN
        IF task[t].err
        THEN /\ phase' = IF c = 0 THEN phase ELSE [phase EXCEPT ![c] = "failed"]
             /\ task' = [task EXCEPT ![t] = IdleTask]
        ELSE IF owner[c] = "listener"
        THEN /\ phase' = [phase EXCEPT ![c] = "built"]
             /\ task' = [task EXCEPT ![t].pc = "addlock"]
        ELSE /\ phase' = [phase EXCEPT ![c] = "live"]
             /\ task' = [task EXCEPT ![t] = IdleTask]
    /\ UNCHANGED <<ifis, kept, lcap, consumers, lmutex, owner, closed, cmutex, conns, sock,
                   closes, loop, closeReturned,
                   addr, cifis, rx, buf, wire>>

\* An accessor that reports the interfaces start did not skip.
InterfacesJoined(c) == SelectSeq(cifis[c], LAMBDA ifi : ifi.mc)

\* Interfaces(): return c.ifis
Interfaces(c) == cifis[c]

-----------------------------------------------------------------------------
(* Consumer: readLoop, one goroutine per joined socket.                     *)

\* A loop that keeps c.mutex locked when it goes on to read.
readLoopCheckKeepsLock(c, k) ==
    /\ loop[c][k] = "top"
    /\ cmutex[c] \in {0, LoopTask(c, k)}
    /\ cmutex' = [cmutex EXCEPT ![c] = IF closed[c] THEN 0 ELSE LoopTask(c, k)]
    /\ loop' = [loop EXCEPT ![c][k] = IF closed[c] THEN "done" ELSE "read"]
    /\ UNCHANGED <<ifis, kept, lcap, consumers, lmutex, phase, owner, closed, conns,
                   sock, closes, task, closeReturned, addr, cifis, rx, buf, wire>>

\* Top of the loop: lock, read c.closed, unlock; return when closed.
readLoopCheck(c, k) ==
    /\ loop[c][k] = "top"
    /\ cmutex[c] = 0
    /\ loop' = [loop EXCEPT ![c][k] = IF closed[c] THEN "done" ELSE "read"]
    /\ UNCHANGED <<ifis, kept, lcap, consumers, lmutex, phase, owner, closed, cmutex, conns,
                   sock, closes, task, closeReturned,
                   addr, cifis, rx, buf, wire>>

\* pc.ReadFrom fails with net.ErrClosed: the loop returns.
readLoopClosed(c, k) ==
    /\ loop[c][k] = "read"
    /\ sock[c][k] = "closed"
    /\ loop' = [loop EXCEPT ![c][k] = "done"]
    /\ UNCHANGED <<ifis, kept, lcap, consumers, lmutex, phase, owner, closed, cmutex, conns,
                   sock, closes, task, closeReturned,
                   addr, cifis, rx, buf, wire>>

\* pc.ReadFrom fails with another error.
readLoopError(c, k) ==
    /\ loop[c][k] = "read"
    /\ sock[c][k] = "open"
    /\ loop' = [loop EXCEPT ![c][k] = "got"]
    /\ rx' = [rx EXCEPT ![c][k] = ReadErr]
    /\ UNCHANGED <<ifis, kept, lcap, consumers, lmutex, phase, owner, closed, cmutex, conns,
                   sock, closes, task, closeReturned, addr, cifis, buf, wire>>

\* The n that pc.ReadFrom returns for a datagram of bytes b: what fits.
ReadLen(b) == Min(Len(b), BufLen)

\* The buffer after pc.ReadFrom(buf) received bytes b: its first n bytes are
\* those of the datagram, the rest is what earlier reads left.
ReadInto(bf, b) == [i \in 1..BufLen |-> IF i <= ReadLen(b) THEN b[i] ELSE bf[i]]

\* pc.ReadFrom returns datagram d with bytes b, read into buf. A slice the
\* application kept that views this buffer shows the new bytes.
readLoopRead(c, k, d, b) ==
    /\ loop[c][k] = "read"
    /\ sock[c][k] = "open"
    /\ loop' = [loop EXCEPT ![c][k] = "got"]
    /\ rx' = [rx EXCEPT ![c][k] = Dgram(d)]
    /\ buf' = [buf EXCEPT ![c][k] = ReadInto(@, b)]
    /\ wire' = [wire EXCEPT ![c][k] = b]
    /\ kept' = IF kept.shared /\ kept.of = <<c, k>>
               THEN [kept EXCEPT !.bytes = SubSeq(ReadInto(buf[c][k], b), 1, Len(@))]
               ELSE kept
    /\ UNCHANGED <<ifis, lcap, consumers, lmutex, phase, owner, closed, cmutex, conns,
                   sock, closes, task, closeReturned, addr, cifis>>

\* A filter that passes every datagram with control data.
AcceptsAnyDst(c, d) == d # NoCm

\* cm != nil && cm.Dst.Equal(c.addr.IP)
Accepts(c, d) == d # NoCm /\ d = addr[c]

\* An error that ends the loop instead of the iteration.
AfterReadReturnOnError(c, k) ==
    IF rx[c][k].kind = "err" THEN "done"
    ELSE IF Accepts(c, rx[c][k].dst) THEN "cb"
    ELSE "top"

\* Where the loop goes with what ReadFrom returned: "continue" on an error,
\* the callback for a datagram that passes the filter, else the next iteration.
AfterRead(c, k) ==
    IF rx[c][k].kind = "err" THEN "top"
    ELSE IF Accepts(c, rx[c][k].dst) THEN "cb"
    ELSE "top"

\* The statements after pc.ReadFrom, up to the call of c.cb.
readLoopDispatch(c, k) ==
    /\ loop[c][k] = "got"
    /\ loop' = [loop EXCEPT ![c][k] = AfterRead(c, k)]
    /\ rx' = [rx EXCEPT ![c][k] = IF AfterRead(c, k) = "cb" THEN @ ELSE NoRead]
    /\ wire' = [wire EXCEPT ![c][k] = IF AfterRead(c, k) = "cb" THEN @ ELSE <<>>]
    /\ UNCHANGED <<ifis, kept, lcap, consumers, lmutex, phase, owner, closed, cmutex,
                   conns, sock, closes, task, closeReturned, addr, cifis, buf>>

\* A payload that is buf[:n] itself.
PayloadView(c, k) ==
    [shared |-> TRUE, of |-> <<c, k>>,
     bytes |-> SubSeq(buf[c][k], 1, ReadLen(wire[c][k]))]

\* payload := make([]byte, n); copy(payload, buf[:n])
Payload(c, k) ==
    [shared |-> FALSE, of |-> <<c, k>>,
     bytes |-> SubSeq(buf[c][k], 1, ReadLen(wire[c][k]))]

\* c.cb(ifi, src, payload) is invoked, no lock being held, and returns, once
\* every call it made has returned. The application may keep the payload
\* slice (keep) for use after the callback has returned.
readLoopCallback(c, k, keep) ==
    /\ loop[c][k] = "cb"
    /\ task[LoopTask(c, k)].pc = "idle"
    /\ loop' = [loop EXCEPT ![c][k] = "top"]
    /\ rx' = [rx EXCEPT ![c][k] = NoRead]
    /\ wire' = [wire EXCEPT ![c][k] = <<>>]
    /\ kept' = IF keep THEN Payload(c, k) ELSE kept
    /\ UNCHANGED <<ifis, lcap, consumers, lmutex, phase, owner, closed, cmutex, conns,
                   sock, closes, task, closeReturned, addr, cifis, buf>>

-----------------------------------------------------------------------------
(* Consumer.Close, called directly or from the Listener.                    *)

\* A caller holding a consumer calls c.Close(): c.mutex.Lock()
Close(t, c) ==
    /\ task[t].pc = "idle"
    /\ phase[c] = "live"
    /\ cmutex[c] = 0
    /\ cmutex' = [cmutex EXCEPT ![c] = t]
    /\ task' = [task EXCEPT ![t] = [IdleTask EXCEPT !.pc = "cbody", !.c = c]]
    /\ UNCHANGED <<ifis, kept, lcap, consumers, lmutex, phase, owner, closed, conns, sock,
                   closes, loop, closeReturned,
                   addr, cifis, rx, buf, wire>>

\* consumer.Close() called by RemoveConsumer or Listener.Close: c.mutex.Lock()
CloseLock(t) ==
    /\ task[t].pc = "clock"
    /\ cmutex[task[t].c] = 0
    /\ cmutex' = [cmutex EXCEPT ![task[t].c] = t]
    /\ task' = [task EXCEPT ![t].pc = "cbody"]
    /\ UNCHANGED <<ifis, kept, lcap, consumers, lmutex, phase, owner, closed, conns, sock,
                   closes, loop, closeReturned,
                   addr, cifis, rx, buf, wire>>

\* A Close that also takes the consumer out of the Listener's collection.
CloseBodyUnregister(t) ==
    /\ task[t].pc = "cbody"
    /\ LET c == task[t].c IN
        /\ consumers' = SelectSeq(consumers, LAMBDA x : x # c)
        /\ IF closed[c]
           THEN UNCHANGED <<closed, sock, closes, conns>>
           ELSE /\ closed' = [closed EXCEPT ![c] = TRUE]
                /\ sock' = [sock EXCEPT ![c] = SockAfterCloseAll(c)]
                /\ closes' = [closes EXCEPT ![c] = ClosesAfterCloseAll(c)]
                /\ conns' = [conns EXCEPT ![c] = NoConns]
    /\ task' = [task EXCEPT ![t].pc = "cunlock"]
    /\ UNCHANGED <<ifis, kept, lcap, lmutex, phase, owner, cmutex, loop, closeReturned,
                   addr, cifis, rx, buf, wire>>

\* The body of Close: return when already closed; otherwise set closed,
\* close every socket of the map and replace the map by an empty one.
CloseBody(t) ==
    /\ task[t].pc = "cbody"
    /\ LET c == task[t].c IN
        IF closed[c]
        THEN UNCHANGED <<closed, sock, closes, conns>>
        ELSE /\ closed' = [closed EXCEPT ![c] = TRUE]
             /\ sock' = [sock EXCEPT ![c] = SockAfterCloseAll(c)]
             /\ closes' = [closes EXCEPT ![c] = ClosesAfterCloseAll(c)]
             /\ conns' = [conns EXCEPT ![c] = NoConns]
    /\ task' = [task EXCEPT ![t].pc = "cunlock"]
    /\ UNCHANGED <<ifis, kept, lcap, consumers, lmutex, phase, owner, cmutex, loop,
                   closeReturned,
                   addr, cifis, rx, buf, wire>>

\* defer c.mutex.Unlock(), and Close returns to its caller.
CloseUnlock(t) ==
    /\ task[t].pc = "cunlock"
    /\ cmutex' = [cmutex EXCEPT ![task[t].c] = 0]
    /\ closeReturned' = [closeReturned EXCEPT ![task[t].c] = TRUE]
    /\ task' = [task EXCEPT ![t] =
                  IF task[t].ret = "idle" THEN IdleTask
                  ELSE [task[t] EXCEPT !.pc = task[t].ret, !.ret = "idle"]]
    /\ UNCHANGED <<ifis, kept, lcap, consumers, lmutex, phase, owner, closed, conns, sock,
                   closes, loop, addr, cifis, rx, buf, wire>>

-----------------------------------------------------------------------------
(* Listener.                                                                *)

\* AddConsumer taking no lock before it appends.
AddConsumerNoLock(t) ==
    /\ task[t].pc = "addlock"
    /\ lmutex' = t
    /\ task' = [task EXCEPT ![t].pc = "addload"]
    /\ UNCHANGED <<ifis, kept, lcap, consumers, consVars>>

\* AddConsumer, after NewConsumer succeeded: l.mutex.Lock()
AddConsumerLock(t) ==
    /\ task[t].pc = "addlock"
    /\ lmutex = 0
    /\ lmutex' = t
    /\ task' = [task EXCEPT ![t].pc = "addload"]
    /\ UNCHANGED <<ifis, kept, lcap, consumers, consVars>>

\* append(l.consumers, consumer) reads the slice ...
AddConsumerLoad(t) ==
    /\ task[t].pc = "addload"
    /\ task' = [task EXCEPT ![t].pc = "addstore", ![t].tmp = consumers]
    /\ UNCHANGED <<ifis, kept, lcap, consumers, lmutex, consVars>>

\* The capacity append gives a slice that is full: growslice doubles it.
Grow(cap) == IF cap = 0 THEN 1 ELSE 2 * cap

\* The cells of a slice that shares the backing array of l.consumers, once
\* the first Len(cells) cells of that array have been written.
Overwritten(ents, cells) ==
    [j \in 1..Len(ents) |-> IF j <= Len(cells) THEN cells[j] ELSE ents[j]]

\* What the slices handed out by Consumers() hold after l.consumers became
\* cells: a slice with an array of its own is untouched; one that shares the
\* array of l.consumers sees the cells written in place, or keeps the old
\* array when l.consumers moved to a fresh one.
Handed(tk, cells, fresh) ==
    [u \in Callers |->
        IF ~tk[u].snap.shared THEN tk[u]
        ELSE IF fresh THEN [tk[u] EXCEPT !.snap.shared = FALSE]
        ELSE [tk[u] EXCEPT !.snap.ents = Overwritten(@, cells)]]

\* ... and l.consumers is assigned the slice with the consumer appended: in
\* place when the capacity allows it, else in a fresh array.
AddConsumerStore(t) ==
    /\ task[t].pc = "addstore"
    /\ consumers' = Append(task[t].tmp, task[t].c)
    /\ lcap' = IF Len(task[t].tmp) < lcap THEN lcap ELSE Grow(lcap)
    /\ task' = Handed([task EXCEPT ![t].pc = "addunlock", ![t].tmp = <<>>],
                      consumers', Len(task[t].tmp) >= lcap)
    /\ UNCHANGED <<ifis, kept, lmutex, consVars>>

\* l.mutex.Unlock(); return consumer, nil
AddConsumerUnlock(t) ==
    /\ task[t].pc = "addunlock"
    /\ lmutex' = 0
    /\ phase' = [phase EXCEPT ![task[t].c] = "live"]
    /\ task' = [task EXCEPT ![t] = IdleTask]
    /\ UNCHANGED <<ifis, kept, lcap, consumers, owner, closed, cmutex, conns, sock, closes,
                   loop, closeReturned,
                   addr, cifis, rx, buf, wire>>

\* A removal that cuts the last entry when c is not found.
RemoveFirstOrLast(s, c) ==
    IF c \in Range(s)
    THEN LET i == CHOOSE j \in 1..Len(s) : s[j] = c /\ \A m \in 1..(j - 1) : s[m] # c
         IN SubSeq(s, 1, i - 1) \o SubSeq(s, i + 1, Len(s))
    ELSE SubSeq(s, 1, Len(s) - 1)

\* A removal that keeps l.consumers[:i] only.
RemoveFirstTruncate(s, c) ==
    IF c \in Range(s)
    THEN LET i == CHOOSE j \in 1..Len(s) : s[j] = c /\ \A m \in 1..(j - 1) : s[m] # c
         IN SubSeq(s, 1, i - 1)
    ELSE s

\* The loop of RemoveConsumer: the first entry equal to c is cut out of s.
RemoveFirst(s, c) ==
    IF c \in Range(s)
    THEN LET i == CHOOSE j \in 1..Len(s) : s[j] = c /\ \A m \in 1..(j - 1) : s[m] # c
         IN SubSeq(s, 1, i - 1) \o SubSeq(s, i + 1, Len(s))
    ELSE s

\* RemoveConsumer(c), for any consumer a caller holds: l.mutex.Lock()
RemoveConsumer(t, c) ==
    /\ task[t].pc = "idle"
    /\ phase[c] = "live"
    /\ lmutex = 0
    /\ lmutex' = t
    /\ task' = [task EXCEPT ![t] = [IdleTask EXCEPT !.pc = "rmscan", !.c = c]]
    /\ UNCHANGED <<ifis, kept, lcap, consumers, consVars>>

\* A RemoveConsumer that cuts the consumer out and leaves it open.
RemoveConsumerScanNoClose(t) ==
    /\ task[t].pc = "rmscan"
    /\ consumers' = RemoveFirst(consumers, task[t].c)
    /\ task' = Handed([task EXCEPT ![t].pc = "rmunlock",
                                   ![t].hit = task[t].c \in Range(consumers)],
                      consumers', FALSE)
    /\ UNCHANGED <<ifis, kept, lcap, lmutex, consVars>>

\* RemoveConsumer: the scan of l.consumers, then consumer.Close() is called,
\* whether or not the consumer was found.
RemoveConsumerScan(t) ==
    /\ task[t].pc = "rmscan"
    /\ consumers' = RemoveFirst(consumers, task[t].c)
    /\ task' = Handed([task EXCEPT ![t].pc = "clock", ![t].ret = "rmunlock",
                                   ![t].hit = task[t].c \in Range(consumers)],
                      consumers', FALSE)
    /\ UNCHANGED <<ifis, kept, lcap, lmutex, consVars>>

\* RemoveConsumer: defer l.mutex.Unlock()
RemoveConsumerUnlock(t) ==
    /\ task[t].pc = "rmunlock"
    /\ lmutex' = 0
    /\ task' = [task EXCEPT ![t] = IdleTask]
    /\ UNCHANGED <<ifis, kept, lcap, consumers, consVars>>

\* Consumers() handing out l.consumers itself.
ConsumersNoCopy(t) ==
    /\ task[t].pc = "idle"
    /\ lmutex = 0
    /\ task' = [task EXCEPT ![t] = [IdleTask EXCEPT !.pc = "holding",
                     !.snap = [shared |-> TRUE, ents |-> consumers]]]
    /\ UNCHANGED <<ifis, kept, lcap, consumers, lmutex, consVars>>

\* Consumers(): under the read lock, which no writer holds with it, a slice
\* of len(l.consumers) is made and l.consumers is copied into it; the caller
\* then holds the slice.
Consumers(t) ==
    /\ task[t].pc = "idle"
    /\ lmutex = 0
    /\ task' = [task EXCEPT ![t] = [IdleTask EXCEPT !.pc = "holding",
                     !.snap = [shared |-> FALSE, ents |-> consumers]]]
    /\ UNCHANGED <<ifis, kept, lcap, consumers, lmutex, consVars>>

\* The caller of Consumers() is done with the slice it got.
ConsumersDone(t) ==
    /\ task[t].pc = "holding"
    /\ task' = [task EXCEPT ![t] = IdleTask]
    /\ UNCHANGED <<ifis, kept, lcap, consumers, lmutex, consVars>>

\* Listener.Close: l.mutex.Lock(), and the range over l.consumers begins.
ListenerClose(t) ==
    /\ task[t].pc = "idle"
    /\ lmutex = 0
    /\ lmutex' = t
    /\ task' = [task EXCEPT ![t] = [IdleTask EXCEPT !.pc = "lcloop", !.i = 1,
                                                     !.tmp = consumers]]
    /\ UNCHANGED <<ifis, kept, lcap, consumers, consVars>>

\* Listener.Close: consumer.Close() for the next consumer of the range.
ListenerCloseNext(t) ==
    /\ task[t].pc = "lcloop"
    /\ task[t].i <= Len(task[t].tmp)
    /\ task' = [task EXCEPT ![t].pc = "clock", ![t].ret = "lcloop",
                            ![t].c = task[t].tmp[task[t].i], ![t].i = @ + 1]
    /\ UNCHANGED <<ifis, kept, lcap, consumers, lmutex, consVars>>

\* Listener.Close leaving l.consumers as it is.
ListenerCloseNoReset(t) ==
    /\ task[t].pc = "lcloop"
    /\ task[t].i > Len(task[t].tmp)
    /\ task' = [task EXCEPT ![t].pc = "lcunlock", ![t].c = 0]
    /\ UNCHANGED <<ifis, kept, lcap, consumers, lmutex, consVars>>

\* Listener.Close: l.consumers = make([]*Consumer, 0)
ListenerCloseReset(t) ==
    /\ task[t].pc = "lcloop"
    /\ task[t].i > Len(task[t].tmp)
    /\ consumers' = <<>>
    /\ lcap' = 0
    /\ task' = Handed([task EXCEPT ![t].pc = "lcunlock", ![t].c = 0], <<>>, TRUE)
    /\ UNCHANGED <<ifis, kept, lmutex, consVars>>

\* Listener.Close: defer l.mutex.Unlock()
ListenerCloseUnlock(t) ==
    /\ task[t].pc = "lcunlock"
    /\ lmutex' = 0
    /\ task' = [task EXCEPT ![t] = IdleTask]
    /\ UNCHANGED <<ifis, kept, lcap, consumers, consVars>>

-----------------------------------------------------------------------------
(* Calls made by the application's callback, on the loop's goroutine.       *)

\* The callback of consumer c calls c.Close().
CallbackClose(c, k) ==
    /\ loop[c][k] = "cb"
    /\ phase[c] = "live"
    /\ task[LoopTask(c, k)].pc = "idle"
    /\ task' = [task EXCEPT ![LoopTask(c, k)] = [IdleTask EXCEPT !.pc = "clock", !.c = c]]
    /\ UNCHANGED <<ifis, kept, lcap, consumers, lmutex, consVars>>

\* The callback of consumer c calls l.RemoveConsumer(c).
CallbackRemoveConsumer(c, k) ==
    /\ loop[c][k] = "cb"
    /\ phase[c] = "live"
    /\ task[LoopTask(c, k)].pc = "idle"
    /\ task' = [task EXCEPT ![LoopTask(c, k)] = [IdleTask EXCEPT !.pc = "rmlock", !.c = c]]
    /\ UNCHANGED <<ifis, kept, lcap, consumers, lmutex, consVars>>

\* The callback of a consumer calls l.Close().
CallbackListenerClose(c, k) ==
    /\ loop[c][k] = "cb"
    /\ task[LoopTask(c, k)].pc = "idle"
    /\ task' = [task EXCEPT ![LoopTask(c, k)] = [IdleTask EXCEPT !.pc = "lclock"]]
    /\ UNCHANGED <<ifis, kept, lcap, consumers, lmutex, consVars>>

\* RemoveConsumer, once called: l.mutex.Lock()
RemoveConsumerLock(t) ==
    /\ task[t].pc = "rmlock"
    /\ lmutex = 0
    /\ lmutex' = t
    /\ task' = [task EXCEPT ![t].pc = "rmscan"]
    /\ UNCHANGED <<ifis, kept, lcap, consumers, consVars>>

\* Listener.Close, once called: l.mutex.Lock(), and the range begins.
ListenerCloseLock(t) ==
    /\ task[t].pc = "lclock"
    /\ lmutex = 0
    /\ lmutex' = t
    /\ task' = [task EXCEPT ![t].pc = "lcloop", ![t].i = 1, ![t].tmp = consumers]
    /\ UNCHANGED <<ifis, kept, lcap, consumers, consVars>>

\* AddConsumer with its last two lines apart: l.mutex.Unlock() ...
AddConsumerRelease(t) ==
    /\ task[t].pc = "addunlock"
    /\ lmutex' = 0
    /\ task' = [task EXCEPT ![t].pc = "addret"]
    /\ UNCHANGED <<ifis, kept, lcap, consumers, consVars>>

\* ... and return consumer, nil: from here on the caller holds the consumer.
AddConsumerReturn(t) ==
    /\ task[t].pc = "addret"
    /\ phase' = [phase EXCEPT ![task[t].c] = "live"]
    /\ task' = [task EXCEPT ![t] = IdleTask]
    /\ UNCHANGED <<ifis, kept, lcap, consumers, lmutex, owner, closed, cmutex, conns,
                   sock, closes, loop, closeReturned, addr, cifis, rx, buf, wire>>

-----------------------------------------------------------------------------

\* The steps of a program that adds consumers and closes them directly, but
\* never calls RemoveConsumer or Listener.Close. Here, and in Next, the bytes
\* of the datagrams are left out: every datagram is empty and the callback
\* keeps nothing.
NextAdd ==
    \/ \E t \in Tasks, a \in CallAddrs : NewConsumerInvalid(t, a)
    \/ \E t \in Tasks, v \in BOOLEAN, a \in CallAddrs : NewConsumer(t, v, a)
    \/ \E t \in Tasks : startSkip(t)
    \/ \E t \in Tasks : startOpenFail(t)
    \/ \E t \in Tasks : startSetupFail(t)
    \/ \E t \in Tasks : startJoin(t)
    \/ \E t \in Tasks : startDone(t)
    \/ \E t \in Tasks : NewConsumerReturn(t)
    \/ \E c \in Cons, k \in Pos : readLoopCheck(c, k)
    \/ \E c \in Cons, k \in Pos : readLoopClosed(c, k)
    \/ \E c \in Cons, k \in Pos : readLoopError(c, k)
    \/ \E c \in Cons, k \in Pos, d \in Datagrams : readLoopRead(c, k, d, <<>>)
    \/ \E c \in Cons, k \in Pos : readLoopDispatch(c, k)
    \/ \E c \in Cons, k \in Pos : readLoopCallback(c, k, FALSE)
    \/ \E t \in Tasks, c \in Cons : Close(t, c)
    \/ \E t \in Tasks : CloseBody(t)
    \/ \E t \in Tasks : CloseUnlock(t)
    \/ \E t \in Tasks : AddConsumerLock(t)
    \/ \E t \in Tasks : AddConsumerLoad(t)
    \/ \E t \in Tasks : AddConsumerStore(t)
    \/ \E t \in Tasks : AddConsumerUnlock(t)

Next ==
    \/ NextAdd
    \/ \E t \in Tasks : CloseLock(t)
    \/ \E t \in Tasks, c \in Cons : RemoveConsumer(t, c)
    \/ \E t \in Tasks : RemoveConsumerScan(t)
    \/ \E t \in Tasks : RemoveConsumerUnlock(t)
    \/ \E t \in Tasks : ListenerClose(t)
    \/ \E t \in Tasks : ListenerCloseNext(t)
    \/ \E t \in Tasks : ListenerCloseReset(t)
    \/ \E t \in Tasks : ListenerCloseUnlock(t)

Spec == Init /\ [][Next]_vars

SpecAdd == Init /\ [][NextAdd]_vars

\* The steps of a program whose callers also look at the collection through
\* Consumers().
NextSnap ==
    \/ Next
    \/ \E t \in Tasks : Consumers(t)
    \/ \E t \in Tasks : ConsumersDone(t)

SpecSnap == Init /\ [][NextSnap]_vars

\* The steps of consumers that are constructed directly and receive
\* datagrams with bytes in them, which the callback may keep.
NextPayload ==
    \/ \E t \in Tasks : NewConsumer(t, FALSE, GroupAddr)
    \/ \E t \in Tasks : startSkip(t)
    \/ \E t \in Tasks : startJoin(t)
    \/ \E t \in Tasks : startDone(t)
    \/ \E t \in Tasks : NewConsumerReturn(t)
    \/ \E c \in Cons, k \in Pos : readLoopCheck(c, k)
    \/ \E c \in Cons, k \in Pos, d \in Datagrams, b \in Wire : readLoopRead(c, k, d, b)
    \/ \E c \in Cons, k \in Pos : readLoopDispatch(c, k)
    \/ \E c \in Cons, k \in Pos, keep \in BOOLEAN : readLoopCallback(c, k, keep)

SpecPayload == Init /\ [][NextPayload]_vars

\* The steps of a Listener whose consumers' callbacks call Consumer.Close,
\* RemoveConsumer and Listener.Close themselves, next to the same calls made
\* by other goroutines.
NextReentrant ==
    \/ \E t \in Tasks : NewConsumer(t, TRUE, GroupAddr)
    \/ \E t \in Tasks : startSkip(t)
    \/ \E t \in Tasks : startJoin(t)
    \/ \E t \in Tasks : startDone(t)
    \/ \E t \in Tasks : NewConsumerReturn(t)
    \/ \E t \in Tasks : AddConsumerLock(t)
    \/ \E t \in Tasks : AddConsumerLoad(t)
    \/ \E t \in Tasks : AddConsumerStore(t)
    \/ \E t \in Tasks : AddConsumerUnlock(t)
    \/ \E c \in Cons, k \in Pos : readLoopCheck(c, k)
    \/ \E c \in Cons, k \in Pos : readLoopClosed(c, k)
    \/ \E c \in Cons, k \in Pos : readLoopRead(c, k, GroupAddr, <<>>)
    \/ \E c \in Cons, k \in Pos : readLoopDispatch(c, k)
    \/ \E c \in Cons, k \in Pos : readLoopCallback(c, k, FALSE)
    \/ \E c \in Cons, k \in Pos : CallbackClose(c, k)
    \/ \E c \in Cons, k \in Pos : CallbackRemoveConsumer(c, k)
    \/ \E c \in Cons, k \in Pos : CallbackListenerClose(c, k)
    \/ \E t \in Tasks, c \in Cons : Close(t, c)
    \/ \E t \in Tasks, c \in Cons : RemoveConsumer(t, c)
    \/ \E t \in Tasks : ListenerClose(t)
    \/ \E t \in Callers : CloseLock(t)
    \/ \E t \in Callers : CloseBody(t)
    \/ \E t \in Callers : CloseUnlock(t)
    \/ \E t \in Callers : RemoveConsumerLock(t)
    \/ \E t \in Callers : RemoveConsumerScan(t)
    \/ \E t \in Callers : RemoveConsumerUnlock(t)
    \/ \E t \in Callers : ListenerCloseLock(t)
    \/ \E t \in Callers : ListenerCloseNext(t)
    \/ \E t \in Callers : ListenerCloseReset(t)
    \/ \E t \in Callers : ListenerCloseUnlock(t)

SpecReentrant == Init /\ [][NextReentrant]_vars

\* The steps of a Listener whose callers add, remove and close, with the
\* return of AddConsumer a step of its own after the lock is released.
NextTrack ==
    \/ \E t \in Tasks : NewConsumer(t, TRUE, GroupAddr)
    \/ \E t \in Tasks : startSkip(t)
    \/ \E t \in Tasks : startJoin(t)
    \/ \E t \in Tasks : startDone(t)
    \/ \E t \in Tasks : NewConsumerReturn(t)
    \/ \E t \in Tasks : AddConsumerLock(t)
    \/ \E t \in Tasks : AddConsumerLoad(t)
    \/ \E t \in Tasks : AddConsumerStore(t)
    \/ \E t \in Tasks : AddConsumerRelease(t)
    \/ \E t \in Tasks : AddConsumerReturn(t)
    \/ \E t \in Tasks, c \in Cons : Close(t, c)
    \/ \E t \in Tasks : CloseLock(t)
    \/ \E t \in Tasks : CloseBody(t)
    \/ \E t \in Tasks : CloseUnlock(t)
    \/ \E t \in Tasks, c \in Cons : RemoveConsumer(t, c)
    \/ \E t \in Tasks : RemoveConsumerScan(t)
    \/ \E t \in Tasks : RemoveConsumerUnlock(t)
    \/ \E t \in Tasks : ListenerClose(t)
    \/ \E t \in Tasks : ListenerCloseNext(t)
    \/ \E t \in Tasks : ListenerCloseReset(t)
    \/ \E t \in Tasks : ListenerCloseUnlock(t)

SpecTrack == Init /\ [][NextTrack]_vars

-----------------------------------------------------------------------------
(* Properties.                                                              *)

\* The step in which the readLoop of socket k of consumer c invokes c.cb.
CallbackStep(c, k) == loop[c][k] = "cb" /\ loop'[c][k] = "top"

\* Task t takes a step.
Steps(t) == task'[t] # task[t]

\* No socket of consumer c is open.
AllReleased(c) == \A k \in Pos : sock[c][k] # "open"

\* C1: when NewConsumer returns an error, every socket opened during that
\* construction has been closed, the socket of the failing interface included.
C1_FailedConstructionLeavesNoSocket ==
    \A c \in Cons : phase[c] = "failed" => AllReleased(c)

\* C2: Consumer.Close is idempotent: after any number of calls the closed flag
\* is true, the socket mapping is empty and every socket is closed, and a call
\* on a closed consumer changes nothing and performs no socket operation.
C2_CloseIdempotent ==
    /\ [](\A c \in Cons : closeReturned[c] =>
            closed[c] /\ conns[c] = NoConns /\ AllReleased(c))
    /\ [][\A t \in Tasks :
            (task[t].pc = "cbody" /\ Steps(t) /\ closed[task[t].c]) =>
                UNCHANGED <<closed, conns, sock, closes>>]_vars

\* C3: the callback of a consumer is never invoked before NewConsumer has
\* returned success for it, and never for a consumer whose construction failed.
C3_NoCallbackBeforeConstructed ==
    [][\A c \in Cons, k \in Pos :
        CallbackStep(c, k) => phase[c] \in {"built", "live"}]_vars

\* C4: once Consumer.Close has returned (closed flag set, every socket closed,
\* mapping emptied), no invocation of the callback of that consumer starts.
C4_NoCallbackAfterRelease ==
    [][\A c \in Cons, k \in Pos :
        CallbackStep(c, k) =>
            ~(closeReturned[c] /\ closed[c] /\ conns[c] = NoConns /\ AllReleased(c))]_vars

\* Task t is in a RemoveConsumer call whose consumer is not in the collection.
RemovingAbsent(t) ==
    \/ task[t].pc = "rmscan" /\ task[t].c \notin Range(consumers)
    \/ task[t].pc \in {"clock", "cbody", "cunlock"} /\ task[t].ret = "rmunlock" /\ ~task[t].hit
    \/ task[t].pc = "rmunlock" /\ ~task[t].hit

\* C5: RemoveConsumer with a consumer that is not in the collection is a no-op:
\* the collection and the state of the passed consumer are unchanged.
C5_RemoveAbsentIsNoOp ==
    [][\A t \in Tasks : (RemovingAbsent(t) /\ Steps(t)) =>
        /\ consumers' = consumers
        /\ closed'[task[t].c] = closed[task[t].c]
        /\ sock'[task[t].c] = sock[task[t].c]
        /\ conns'[task[t].c] = conns[task[t].c]]_vars

\* C6: RemoveConsumer on a consumer not present in the listener leaves the
\* size and the membership of the collection unchanged, from its lock to its
\* unlock, whatever the collection holds.
C6_RemoveAbsentKeepsCollection ==
    [][(\E t \in Tasks : RemovingAbsent(t)) => consumers' = consumers]_vars

\* C6 witness: a RemoveConsumer of an absent, already closed consumer is about
\* to return while the collection holds another consumer.
C6_Witness ==
    \E t \in Tasks :
        /\ task[t].pc = "rmunlock"
        /\ ~task[t].hit
        /\ Len(consumers) >= 1

\* C7: a successful AddConsumer appends exactly the returned consumer; a
\* RemoveConsumer of a present consumer leaves one entry fewer, the removed
\* consumer absent and closed, and every other consumer present exactly once.
C7_AddAndRemoveChangeByOne ==
    /\ [][\A t \in Tasks :
            /\ (task[t].pc = "addstore" /\ Steps(t)) =>
                    consumers' = Append(consumers, task[t].c)
            /\ (task[t].pc = "addunlock" /\ Steps(t)) =>
                    Count(consumers, task[t].c) = 1
            /\ (task[t].pc = "rmscan" /\ Steps(t) /\ task[t].c \in Range(consumers)) =>
                    /\ Len(consumers') = Len(consumers) - 1
                    /\ task[t].c \notin Range(consumers')
                    /\ \A d \in Range(consumers) \ {task[t].c} :
                            Count(consumers', d) = 1 /\ Count(consumers, d) = 1]_vars
    /\ [](\A t \in Tasks : (task[t].pc = "rmunlock" /\ task[t].hit) =>
            closed[task[t].c] /\ task[t].c \notin Range(consumers))

\* C7 witness: a RemoveConsumer that found its consumer is about to return and
\* the other consumer added before is still in the collection.
C7_Witness ==
    \E t \in Tasks :
        /\ task[t].pc = "rmunlock"
        /\ task[t].hit
        /\ Len(consumers) = 1
        /\ consumers[1] > task[t].c

\* C8: Listener.Close leaves the collection empty and every consumer that was
\* in it closed; a Listener.Close that finds the collection empty changes
\* nothing.
C8_ListenerCloseClosesAll ==
    /\ [](\A t \in Tasks : task[t].pc = "lcunlock" =>
            /\ consumers = <<>>
            /\ \A c \in Range(task[t].tmp) : closed[c] /\ closeReturned[c])
    /\ [][\A t \in Tasks :
            (task[t].pc \in {"lcloop", "lcunlock"} /\ task[t].tmp = <<>> /\ Steps(t)) =>
                UNCHANGED <<consumers, closed, conns, sock, closes>>]_vars

\* C8 witness: Listener.Close is about to return after a range over two
\* consumers.
C8_Witness ==
    \E t \in Tasks : task[t].pc = "lcunlock" /\ Len(task[t].tmp) = 2

\* Task t is inside Listener.AddConsumer.
InAddConsumer(t) ==
    /\ task[t].pc \in {"start", "newret", "addlock", "addload", "addstore", "addunlock"}
    /\ task[t].c # 0
    /\ owner[task[t].c] = "listener"

\* The consumers AddConsumer has returned.
Added == {c \in Cons : owner[c] = "listener" /\ phase[c] = "live"}

\* C9: with no removals, once all AddConsumer calls have returned the
\* collection holds exactly the returned consumers, each once.
C9_ConcurrentAddsAllKept ==
    (\A t \in Tasks : ~InAddConsumer(t)) =>
        /\ Len(consumers) = Cardinality(Added)
        /\ Range(consumers) = Added

\* C9 witness: two AddConsumer calls have returned and none is in progress.
C9_Witness ==
    /\ \A t \in Tasks : ~InAddConsumer(t)
    /\ Cardinality(Added) = 2

\* C10: each socket of a consumer is closed exactly once: never twice, and not
\* zero times once a Close of the consumer has returned.
C10_EachSocketClosedOnce ==
    \A c \in Cons, k \in Pos :
        (phase[c] \in {"built", "live"} /\ sock[c][k] # "none") =>
            /\ closes[c][k] <= 1
            /\ closeReturned[c] => closes[c][k] = 1

\* The state a failed or refused construction must leave alone: the sockets,
\* the group memberships and mapping, the loops and the Listener's collection.
Effects == <<consumers, phase, owner, closed, conns, sock, closes, loop, addr, cifis>>

\* C11: NewConsumer with an address that is not multicast always fails: it
\* returns an error and no consumer, and from the call to its return it opens
\* no socket, joins no group, starts no loop and registers nothing, for every
\* interface list.
C11_InvalidAddressRejected ==
    [][\A t \in Tasks :
        /\ (/\ task[t].pc = "idle"
            /\ task'[t].pc \in {"start", "newret"}
            /\ ~IsMulticast(task'[t].addr))
           => /\ task'[t].pc = "newret"
              /\ task'[t].err
              /\ task'[t].c = 0
              /\ UNCHANGED Effects
        /\ (/\ task[t].pc = "newret"
            /\ ~IsMulticast(task[t].addr)
            /\ Steps(t))
           => /\ task'[t] = IdleTask
              /\ UNCHANGED Effects]_vars

\* A call with a unicast address is about to return, while a consumer with
\* open sockets exists.
C11_Witness ==
    \E t \in Tasks :
        /\ task[t].pc = "newret"
        /\ task[t].addr = HostAddr
        /\ \E c \in Cons, k \in Pos : sock[c][k] = "open"

\* The datagram the loop of socket k holds carries destination metadata equal
\* to the consumer's group IP.
ForGroup(c, k) ==
    /\ rx[c][k].kind = "dgram"
    /\ rx[c][k].dst # NoCm
    /\ rx[c][k].dst = addr[c]

\* C12: for every datagram a receive loop reads, the callback is invoked
\* exactly once if the datagram carries destination metadata equal to the
\* consumer's group IP, and not at all otherwise (another group, or no
\* destination metadata): the loop turns to the callback exactly for such a
\* datagram, the callback runs only with such a datagram in hand, and the one
\* invocation uses the datagram up.
C12_CallbackIffForGroup ==
    /\ [](\A c \in Cons, k \in Pos : loop[c][k] = "cb" => ForGroup(c, k))
    /\ [][\A c \in Cons, k \in Pos :
            /\ (loop[c][k] = "got" /\ rx[c][k].kind = "dgram" /\ loop'[c][k] # "got")
               => (loop'[c][k] = "cb" <=> ForGroup(c, k))
            /\ (loop[c][k] # "cb" /\ loop'[c][k] = "cb") => loop[c][k] = "got"
            /\ (loop[c][k] = "cb" /\ loop'[c][k] # "cb")
               => (loop'[c][k] = "top" /\ rx'[c][k] = NoRead)]_vars

\* One loop is about to invoke the callback while another holds a datagram
\* of another group.
C12_Witness ==
    \E c, d \in Cons, k, j \in Pos :
        /\ loop[c][k] = "cb"
        /\ loop[d][j] = "got"
        /\ rx[d][j] = Dgram(OtherGroup)

\* Task t is in a Consumer.Close that a caller made directly, not one made by
\* RemoveConsumer or Listener.Close.
InDirectClose(t) == task[t].pc \in {"cbody", "cunlock"} /\ task[t].ret = "idle"

\* C13: closing a consumer directly with Consumer.Close does not change the
\* Listener's collection: no step of a direct Close, from its call to its
\* return, changes l.consumers, and a consumer leaves l.consumers only in a
\* step of RemoveConsumer or of Listener.Close.
C13_DirectCloseKeepsCollection ==
    [][/\ \A t \in Tasks :
            ((InDirectClose(t) \/ InDirectClose(t)') /\ Steps(t))
                => consumers' = consumers
       /\ \A c \in Cons :
            Count(consumers', c) < Count(consumers, c)
                => \E t \in Tasks : task[t].pc \in {"rmscan", "lcloop"} /\ Steps(t)]_vars

\* A consumer of the collection has been closed directly and is still in it,
\* with no call in progress.
C13_Witness ==
    \E c \in Cons :
        /\ closeReturned[c]
        /\ c \in Range(consumers)
        /\ lmutex = 0
        /\ \A t \in Tasks : task[t].pc = "idle"

\* C14: the slice returned by Consumers() is a snapshot: it holds the entries
\* of l.consumers at the time of the call, and no later AddConsumer,
\* RemoveConsumer or Listener.Close, in any interleaving, changes the length
\* or the entries of a slice already returned.
C14_SnapshotIsStable ==
    [][\A t \in Tasks :
        /\ (task[t].pc # "holding" /\ task'[t].pc = "holding")
           => task'[t].snap.ents = consumers
        /\ (task[t].pc = "holding" /\ task'[t].pc = "holding")
           => task'[t].snap.ents = task[t].snap.ents]_vars

\* A caller holds a slice of two consumers while the collection has been
\* changed by a removal.
C14_Witness ==
    \E t \in Tasks :
        /\ task[t].pc = "holding"
        /\ Len(task[t].snap.ents) = 2
        /\ Len(consumers) < 2
        /\ lcap = 2

\* NewConsumer has returned consumer c to its caller.
Constructed(c) == phase[c] \in {"built", "live"}

\* C15, as the specification states it: when no interface of the list is
\* multicast-capable, construction succeeds and Interfaces() is empty, and
\* Interfaces() holds only interfaces that were joined.
C15_InterfacesAreTheJoined ==
    \A c \in Cons :
        Constructed(c) =>
            /\ NumMulticast(ifis) = 0 => Interfaces(c) = <<>>
            /\ \A i \in 1..Len(Interfaces(c)) :
                  \E k \in 1..Len(cifis[c]) :
                      cifis[c][k] = Interfaces(c)[i] /\ sock[c][k] # "none"

\* C15, amended: when no interface of the list is multicast-capable,
\* construction does not fail and opens no socket and starts no loop; and
\* Interfaces() of a consumer is the list that was passed to NewConsumer,
\* the skipped interfaces included.
C15_InterfacesAreTheListPassed ==
    \A c \in Cons :
        /\ phase[c] # "none" => Interfaces(c) = ifis
        /\ (phase[c] # "none" /\ NumMulticast(ifis) = 0)
           => /\ phase[c] # "failed"
              /\ \A k \in Pos : sock[c][k] = "none" /\ loop[c][k] = "idle"

\* A consumer has been constructed on a non-empty list without a
\* multicast-capable interface.
C15_Witness ==
    \E c \in Cons :
        /\ phase[c] = "live"
        /\ Len(ifis) >= 1
        /\ NumMulticast(ifis) = 0

\* C16: in every state of a constructed consumer at most one of its open
\* sockets belongs to each interface index, and every open socket of the
\* consumer is recorded in c.ipv4PacketConns, for every interface list,
\* lists with a repeated index included.
C16_OneOpenSocketPerIndexAllMapped ==
    \A c \in Cons :
        Constructed(c) =>
            /\ \A k \in Pos : sock[c][k] = "open" => k \in MappedSocks(c)
            /\ \A k, j \in Pos :
                  (k # j /\ sock[c][k] = "open" /\ sock[c][j] = "open")
                      => cifis[c][k].Index # cifis[c][j].Index

\* C17: the closed flag never goes back from true to false, and in every
\* state where the consumer's lock is free and closed is true, the mapping is
\* empty and none of the consumer's sockets is open.
C17_ClosedIsFinalAndReleased ==
    /\ [][\A c \in Cons : closed[c] => closed'[c]]_vars
    /\ [](\A c \in Cons :
            (cmutex[c] = 0 /\ closed[c]) => (conns[c] = NoConns /\ AllReleased(c)))

\* The loop of socket k can take a step that needs no datagram to arrive: the
\* check of c.closed, the return on net.ErrClosed, the handling of what was
\* read, or the callback.
LoopCanStep(c, k) ==
    ENABLED (\/ readLoopCheck(c, k)
             \/ readLoopClosed(c, k)
             \/ readLoopDispatch(c, k)
             \/ readLoopCallback(c, k, FALSE))

\* C18: after Consumer.Close has been called, every receive loop of the
\* consumer terminates, given a fair scheduler and a read that fails once
\* its socket is closed. Stated for finite runs: once Close has returned and
\* the consumer's lock is free, every loop that has not terminated can take
\* a step without waiting for traffic.
C18_LoopsNotStuckAfterClose ==
    \A c \in Cons, k \in Pos :
        (closeReturned[c] /\ cmutex[c] = 0 /\ loop[c][k] \notin {"idle", "done"})
            => LoopCanStep(c, k)

\* The readLoop of socket k of consumer c has been started and has not
\* returned.
LoopRunning(c, k) == loop[c][k] \in {"top", "read", "got", "cb"}

C20_ErrorsContinueClosedReturns ==
    [][\A c \in Cons, k \in Pos :
        /\ (loop[c][k] = "got" /\ rx[c][k] = ReadErr /\ loop'[c][k] # "got")
           => loop'[c][k] = "top"
        /\ (loop[c][k] = "top" /\ ~closed[c] /\ loop'[c][k] # "top")
           => loop'[c][k] = "read"
        /\ (loop[c][k] = "read" /\ sock[c][k] = "closed" /\ loop'[c][k] # "read")
           => loop'[c][k] = "done"
        /\ loop[c][k] = "done" => loop'[c][k] = "done"]_vars

\* One loop has met a read error while another, whose socket is closed, is
\* still in its read.
C20_Witness ==
    \E c, d \in Cons, k, j \in Pos :
        /\ loop[c][k] = "got"
        /\ rx[c][k] = ReadErr
        /\ loop[d][j] = "read"
        /\ sock[d][j] = "closed"

\* C21: the payload passed to the callback for a matching datagram equals
\* the bytes of that datagram, and it is a private copy: what the callback
\* was handed is the datagram's bytes, and no later step, a later read of the
\* same loop into its buffer included, changes a payload already handed over.
C21_PayloadIsDatagramCopy ==
    [][/\ \A c \in Cons, k \in Pos :
            CallbackStep(c, k) => (kept' = kept \/ kept'.bytes = wire[c][k])
       /\ (\A c \in Cons, k \in Pos : ~CallbackStep(c, k))
            => kept'.bytes = kept.bytes]_vars

\* The goroutine that holds the lock caller t is waiting for; 0 when t is not
\* at a Lock() or the lock is free.
WaitsFor(t) ==
    IF task[t].pc = "clock" THEN cmutex[task[t].c]
    ELSE IF task[t].pc \in {"addlock", "rmlock", "lclock"} THEN lmutex
    ELSE 0

\* Caller t is not at a Lock(), or the lock it waits for is held by a caller
\* that is not waiting itself, or that waits for such a caller, and so on.
RECURSIVE CanRun(_, _)
CanRun(t, n) == WaitsFor(t) = 0 \/ (n > 0 /\ CanRun(WaitsFor(t), n - 1))

\* A step of the call caller t is in.
CallStep(t) ==
    \/ startSkip(t) \/ startOpenFail(t) \/ startSetupFail(t) \/ startJoin(t)
    \/ startDone(t) \/ NewConsumerReturn(t)
    \/ AddConsumerLock(t) \/ AddConsumerLoad(t) \/ AddConsumerStore(t)
    \/ AddConsumerUnlock(t)
    \/ CloseLock(t) \/ CloseBody(t) \/ CloseUnlock(t)
    \/ RemoveConsumerLock(t) \/ RemoveConsumerScan(t) \/ RemoveConsumerUnlock(t)
    \/ ListenerCloseLock(t) \/ ListenerCloseNext(t) \/ ListenerCloseReset(t)
    \/ ListenerCloseUnlock(t)

\* Caller t holds no lock.
HoldsNoLock(t) == lmutex # t /\ \A c \in Cons : cmutex[c] # t

\* C22: no deadlock is reachable. A receive loop holds no lock while it reads
\* and none when it enters the callback; the listener lock is only taken by
\* a caller that holds no consumer lock. Hence, with callbacks that call
\* Consumer.Close on their own consumer, RemoveConsumer and Listener.Close,
\* and other goroutines making the same calls: every caller inside a call
\* either can take its next step or waits for a lock at the end of a chain
\* of holders that can; and every loop waiting to check c.closed waits for
\* such a holder.
C22_NoDeadlockLockOrder ==
    /\ [](/\ \A t \in Callers :
                /\ CanRun(t, Cardinality(Callers))
                /\ (task[t].pc \notin {"idle", "holding"} /\ WaitsFor(t) = 0)
                      => ENABLED CallStep(t)
           /\ \A c \in Cons, k \in Pos :
                /\ (loop[c][k] = "top" /\ cmutex[c] # 0)
                      => CanRun(cmutex[c], Cardinality(Callers))
                /\ loop[c][k] \in {"read", "got"} => HoldsNoLock(LoopTask(c, k)))
    /\ [][/\ \A t \in Callers :
                (lmutex' = t /\ lmutex # t) => (\A d \in Cons : cmutex[d] # t)
          /\ \A c \in Cons, k \in Pos :
                (loop[c][k] # "cb" /\ loop'[c][k] = "cb")
                      => HoldsNoLock(LoopTask(c, k))']_vars

\* A callback's call to Consumer.Close waits for the consumer's lock, held by
\* a Close that Listener.Close or RemoveConsumer made under the listener's
\* lock, while another caller waits for the listener's lock.
C22_Witness ==
    \E c \in Cons, k \in Pos, t \in Callers, u \in Callers :
        /\ task[LoopTask(c, k)].pc = "clock"
        /\ cmutex[c] = t
        /\ lmutex = t
        /\ task[u].pc \in {"rmlock", "lclock", "addlock"}

\* Consumer c is in the Listener's collection.
Tracked(c) == c \in Range(consumers)

\* The consumers AddConsumer has appended and released the lock for, returned
\* to the caller or about to be.
Appended ==
    {c \in Cons : owner[c] = "listener" /\
        (phase[c] = "live" \/ \E t \in Tasks : task[t].pc = "addret" /\ task[t].c = c)}

\* A step of RemoveConsumer(c), of a Close of c, or of a Listener.Close whose
\* range holds c.
RemovesOrCloses(c) ==
    \E t \in Tasks :
        /\ Steps(t)
        /\ \/ task[t].pc \in {"rmscan", "cbody"} /\ task[t].c = c
           \/ task[t].pc = "lcloop" /\ c \in Range(task[t].tmp)

\* C23 as stated: whenever the listener's lock is free every consumer that
\* AddConsumer has returned is in the collection or closed, and the consumer
\* an AddConsumer is about to return, whatever Listener.Close it overlapped,
\* is open and in the collection.
C23_ReturnedOpenAndTracked ==
    /\ lmutex = 0 => \A c \in Added : Tracked(c) \/ closed[c]
    /\ \A t \in Tasks :
          task[t].pc = "addret" => (Tracked(task[t].c) /\ ~closed[task[t].c])

\* C23, amended: whenever the listener's lock is free every consumer that
\* AddConsumer has appended, returned or not, is in the collection or closed;
\* the append makes the consumer tracked while it is open, also after a
\* Listener.Close; and a tracked open consumer stays so until a step of
\* RemoveConsumer on it, of a Close of it or of Listener.Close, which may be
\* a Listener.Close that began before AddConsumer returned.
C23_TrackedOrClosed ==
    /\ [](lmutex = 0 => \A c \in Appended : Tracked(c) \/ closed[c])
    /\ [][/\ \A t \in Tasks :
                (task[t].pc = "addstore" /\ Steps(t))
                    => (Tracked(task[t].c)' /\ ~closed'[task[t].c])
          /\ \A c \in Cons :
                (/\ owner[c] = "listener"
                 /\ Tracked(c) /\ ~closed[c]
                 /\ ~(Tracked(c)' /\ ~closed'[c]))
                    => RemovesOrCloses(c)]_vars

\* An AddConsumer has appended its consumer and released the lock; before it
\* returned, a Listener.Close ran to its end, so the consumer it is about to
\* return is closed and no longer in the collection, with the lock free.
C23_Witness ==
    \E t \in Tasks :
        /\ task[t].pc = "addret"
        /\ closed[task[t].c]
        /\ ~Tracked(task[t].c)
        /\ lmutex = 0

=============================================================================
